---- MODULE Spec2Model ----
(***************************************************************************)
(* Receipt extraction pipeline (receipt_extractor.py) and its web layer    *)
(* (app.py).                                                               *)
(*                                                                         *)
(* Text is a TLA+ string; a character is a string of length 1.  Amounts of *)
(* money, which the source holds as floats parsed from literals with two   *)
(* decimals, are integers counting hundredths.                             *)
(***************************************************************************)
EXTENDS Integers, Sequences, FiniteSets, TLC

VARIABLES
    address, area, apc,     \* the area resolver: its argument, its result, its position
    call, ret, pc,          \* extract_receipt_to_object: its arguments, its outcome, its position
    files, idx,             \* extract_multiple_receipts_to_json: its argument, the loop's position
    results,                \*   the mapping built so far
    processed_count,        \*   the documents that did not raise so far
    outcomes,               \*   what each document processed so far did (history)
    top_level, bpc,         \*   the returned mapping, the call's position
    stats_file,             \* what uploads/stats.json holds, as json.load reads it
    stats_size,             \* the length of the text it holds
    stats_start,            \* what it held before the calls began (history)
    bump_arg, bump_local,   \* concurrent bump_stats calls: each call's argument, its local stats
    bump_pc,                \*   and its position
    requests, ridx,         \* process_single_file: the uploads of the requests, in the order
                            \*   they arrive, and the next one to arrive
    stored,                 \*   the files of the upload folder, by path
    opened,                 \*   the file pdfplumber.open read for a request whose extractor
                            \*   is between its two opens of the path, by request
    responses,              \*   the result built for each request, by request
    extractor_calls,        \*   the arguments extract_receipt_to_object was called with (history)
    overlapped              \*   whether a request arrived while another was being served (history)

areaVars == <<address, area, apc>>

oneVars == <<call, ret, pc>>

batchVars == <<files, idx, results, processed_count, outcomes, top_level, bpc>>

statsVars == <<stats_file, stats_size, stats_start, bump_arg, bump_local, bump_pc>>

webVars == <<requests, ridx, stored, opened, responses, extractor_calls, overlapped>>

vars == <<areaVars, oneVars, batchVars, statsVars, webVars>>

\* the parts of the state a specification does not use stay as they are here
AreaIdle == address = "" /\ area = "" /\ apc = "idle"

OneIdle == call = <<>> /\ ret = <<>> /\ pc = "idle"

BatchIdle ==
    /\ files = <<>>
    /\ idx = 0
    /\ results = <<>>
    /\ processed_count = 0
    /\ outcomes = <<>>
    /\ top_level = <<>>
    /\ bpc = "idle"

BumpIdle == bump_arg = <<>> /\ bump_local = <<>> /\ bump_pc = <<>>

StatsIdle == stats_file = <<>> /\ stats_size = 0 /\ stats_start = <<>> /\ BumpIdle

WebIdle ==
    /\ requests = <<>>
    /\ ridx = 0
    /\ stored = <<>>
    /\ opened = <<>>
    /\ responses = <<>>
    /\ extractor_calls = <<>>
    /\ overlapped = FALSE

-----------------------------------------------------------------------------
(* Python string primitives used by the source.                            *)

Ch(s, i) == SubSeq(s, i, i)

\* the slice s[i-1:j] of Python: characters i..j, cut at the end of s
Slice(s, i, j) ==
    LET e == IF j > Len(s) THEN Len(s) ELSE j
    IN IF i > e THEN "" ELSE SubSeq(s, i, e)

Min(S) == CHOOSE x \in S : \A y \in S : x <= y

Max(S) == CHOOSE x \in S : \A y \in S : x >= y

Digits == {"0", "1", "2", "3", "4", "5", "6", "7", "8", "9"}

LowerAlphabet == "abcdefghijklmnopqrstuvwxyz"

UpperAlphabet == "ABCDEFGHIJKLMNOPQRSTUVWXYZ"

LowerLetters == {Ch(LowerAlphabet, i) : i \in 1..26}

UpperLetters == {Ch(UpperAlphabet, i) : i \in 1..26}

Letters == LowerLetters \cup UpperLetters

\* the control characters that a string holds only when written as they are: the
\* vertical tab (0x0b) and the file, group, record and unit separators (0x1c..0x1f)
Controls == <<"", "", "", "", "">>

\* \s of the re module and the blanks of str.strip and str.split, within ASCII (the
\* blanks outside ASCII cannot be written in a string of this module)
WS == {" ", "\t", "\n", "\r", "\f"} \cup {Controls[k] : k \in 1..5}

\* the line boundaries of str.splitlines within ASCII: the unit separator is a blank
\* and not a line boundary
LineBreaks == {"\n", "\r", "\f"} \cup {Controls[k] : k \in 1..4}

\* \w of the re module
WordChars == Letters \cup Digits \cup {"_"}

ToUpper == [c \in LowerLetters |-> Ch(UpperAlphabet, CHOOSE i \in 1..26 : Ch(LowerAlphabet, i) = c)]

ToLower == [c \in UpperLetters |-> Ch(LowerAlphabet, CHOOSE i \in 1..26 : Ch(UpperAlphabet, i) = c)]

UpperCh(c) == IF c \in LowerLetters THEN ToUpper[c] ELSE c

LowerCh(c) == IF c \in UpperLetters THEN ToLower[c] ELSE c

RECURSIVE Upper(_)
\* str.upper(), character by character (the two halves keep the recursion shallow)
Upper(s) ==
    IF s = "" THEN ""
    ELSE IF Len(s) = 1 THEN UpperCh(s)
    ELSE Upper(SubSeq(s, 1, Len(s) \div 2)) \o Upper(SubSeq(s, Len(s) \div 2 + 1, Len(s)))

RECURSIVE Lower(_)
\* str.lower()
Lower(s) ==
    IF s = "" THEN ""
    ELSE IF Len(s) = 1 THEN LowerCh(s)
    ELSE Lower(SubSeq(s, 1, Len(s) \div 2)) \o Lower(SubSeq(s, Len(s) \div 2 + 1, Len(s)))

RECURSIVE TitleRange(_, _, _)
\* characters i..j of s.title()
TitleRange(s, i, j) ==
    IF i > j THEN ""
    ELSE IF i = j
         THEN (IF i > 1 /\ Ch(s, i - 1) \in Letters THEN LowerCh(Ch(s, i)) ELSE UpperCh(Ch(s, i)))
    ELSE TitleRange(s, i, (i + j) \div 2) \o TitleRange(s, (i + j) \div 2 + 1, j)

\* str.title(): a cased character is upper after an uncased one, lower after a cased one
Title(s) == TitleRange(s, 1, Len(s))

\* sub in s
Contains(s, sub) ==
    \E i \in 1..(Len(s) - Len(sub) + 1) : SubSeq(s, i, i + Len(sub) - 1) = sub

\* s.startswith(p)
StartsWith(s, p) == Len(p) <= Len(s) /\ SubSeq(s, 1, Len(p)) = p

\* the last index of the longest run of characters of C that starts at i (i - 1: no run)
RunEnd(s, i, C) ==
    IF \A k \in i..Len(s) : Ch(s, k) \in C THEN Len(s)
    ELSE Min({k \in i..Len(s) : Ch(s, k) \notin C}) - 1

\* str.strip()
Strip(s) ==
    LET keep == {k \in 1..Len(s) : Ch(s, k) \notin WS}
    IN IF keep = {} THEN "" ELSE SubSeq(s, Min(keep), Max(keep))

RECURSIVE Split(_)
\* str.split(): the whitespace-separated tokens
Split(s) ==
    LET b == RunEnd(s, 1, WS) + 1
    IN IF b > Len(s) THEN <<>>
       ELSE LET e == IF \A k \in b..Len(s) : Ch(s, k) \notin WS THEN Len(s)
                     ELSE Min({k \in b..Len(s) : Ch(s, k) \in WS}) - 1
            IN <<SubSeq(s, b, e)>> \o Split(SubSeq(s, e + 1, Len(s)))

RECURSIVE Join(_, _)
\* sep.join(parts)
Join(parts, sep) ==
    IF parts = <<>> THEN ""
    ELSE IF Len(parts) = 1 THEN parts[1]
    ELSE parts[1] \o sep \o Join(Tail(parts), sep)

RECURSIVE Replace(_, _, _)
\* s.replace(a, b) for a single character a
Replace(s, a, b) ==
    IF s = "" THEN ""
    ELSE IF Len(s) = 1 THEN (IF s = a THEN b ELSE s)
    ELSE Replace(SubSeq(s, 1, Len(s) \div 2), a, b)
            \o Replace(SubSeq(s, Len(s) \div 2 + 1, Len(s)), a, b)

RECURSIVE splitlines(_)
\* str.splitlines(): the lines without their boundaries, "\r\n" being one boundary;
\* no empty line after a boundary that ends the text
splitlines(s) ==
    IF s = "" THEN <<>>
    ELSE LET nl == {k \in 1..Len(s) : Ch(s, k) \in LineBreaks}
             k == IF nl = {} THEN Len(s) + 1 ELSE Min(nl)
             crlf == Slice(s, k, k + 1) = "\r\n"
         IN <<SubSeq(s, 1, k - 1)>>
                \o splitlines(Slice(s, IF crlf THEN k + 2 ELSE k + 1, Len(s)))

-----------------------------------------------------------------------------
(* extract_area_from_address                                               *)

stop_words ==
    {"CASH", "SALE", "NO", "PAGE", "TEL", "FAX", "ITEMITEM", "RM", "RINGGIT", "MALAYSIA"}

\* [A-Z\.\s]
AreaClass == UpperLetters \cup {"."} \cup WS

\* \b\d{5}\b\s+([A-Z\.\s]+) tried at position i of s
AreaMatchAt(s, i) ==
    IF /\ i + 5 <= Len(s)
       /\ \A k \in i..(i + 4) : Ch(s, k) \in Digits
       /\ (i = 1 \/ Ch(s, i - 1) \notin WordChars)
       /\ Ch(s, i + 5) \in WS
    THEN LET w == RunEnd(s, i + 5, WS)
             g == RunEnd(s, w + 1, AreaClass)
         IN IF g >= w + 1 THEN [found |-> TRUE, group |-> SubSeq(s, w + 1, g)]
            \* \s+ gives its last character back to the group
            ELSE IF w - 1 >= i + 5 THEN [found |-> TRUE, group |-> Ch(s, w)]
            ELSE [found |-> FALSE, group |-> ""]
    ELSE [found |-> FALSE, group |-> ""]

\* re.search: the leftmost position at which the pattern matches
AreaSearch(s) ==
    LET hits == {i \in 1..Len(s) : AreaMatchAt(s, i).found}
    IN IF hits = {} THEN [found |-> FALSE, group |-> ""] ELSE AreaMatchAt(s, Min(hits))

\* the tokens up to, not including, the first stop word
RECURSIVE UntilStopWord(_)
UntilStopWord(tokens) ==
    IF tokens = <<>> \/ Head(tokens) \in stop_words THEN <<>>
    ELSE <<Head(tokens)>> \o UntilStopWord(Tail(tokens))

\* PickArea scanning from the front
PickAreaFirst(area_tokens) ==
    LET long == {k \in 1..Len(area_tokens) : Len(area_tokens[k]) > 2}
    IN IF long # {} THEN Title(area_tokens[Min(long)])
       ELSE Title(area_tokens[Len(area_tokens)])

\* for t in reversed(area_tokens): if len(t) > 2: return t.title(); else the last token
PickArea(area_tokens) ==
    LET long == {k \in 1..Len(area_tokens) : Len(area_tokens[k]) > 2}
    IN IF long # {} THEN Title(area_tokens[Max(long)])
       ELSE Title(area_tokens[Len(area_tokens)])

extract_area_from_address(addr) ==
    IF addr = "" THEN ""
    ELSE LET addr_up == Upper(addr)
             m == AreaSearch(addr_up)
         IN IF ~m.found THEN ""
            ELSE LET segment == Strip(Join(Split(Replace(m.group, ".", " ")), " "))
                 IN IF segment = "" THEN ""
                    ELSE LET tokens == Split(segment)
                             stopped == UntilStopWord(tokens)
                             area_tokens == IF stopped = <<>> THEN tokens ELSE stopped
                         IN PickArea(area_tokens)

-----------------------------------------------------------------------------
(* Numbers                                                                 *)

DigitString == "0123456789"

DigitVal(c) == (CHOOSE i \in 1..10 : Ch(DigitString, i) = c) - 1

RECURSIVE ParseNat(_)
\* int(s) for a string of digits
ParseNat(s) ==
    IF s = "" THEN 0
    ELSE ParseNat(SubSeq(s, 1, Len(s) - 1)) * 10 + DigitVal(Ch(s, Len(s)))

RECURSIVE NatToStr(_)
NatToStr(n) ==
    IF n < 10 THEN Ch(DigitString, n + 1)
    ELSE NatToStr(n \div 10) \o Ch(DigitString, (n % 10) + 1)

\* \d{1,3}(?:,\d{3})*\.\d{2} tried at position i of s: the index of the match's
\* last character, 0 when there is no match at i
MoneyMatchAt(s, i) ==
    LET d == RunEnd(s, i, Digits)
        RECURSIVE Groups(_)
        \* the end of the longest run of ,ddd groups that starts after position e
        Groups(e) ==
            IF /\ e + 4 <= Len(s)
               /\ Ch(s, e + 1) = ","
               /\ \A k \in (e + 2)..(e + 4) : Ch(s, k) \in Digits
            THEN Groups(e + 4)
            ELSE e
    IN IF d < i \/ d - i + 1 > 3 THEN 0
       ELSE LET g == Groups(d)
            IN IF /\ g + 3 <= Len(s)
                  /\ Ch(s, g + 1) = "."
                  /\ Ch(s, g + 2) \in Digits
                  /\ Ch(s, g + 3) \in Digits
               THEN g + 3
               ELSE 0

\* s.replace(",", "")
RemoveCommas(s) == Replace(s, ",", "")

\* float(s.replace(",", "")) of a grouped decimal with two decimals, in hundredths
to_float(s) ==
    LET t == RemoveCommas(s)
    IN ParseNat(SubSeq(t, 1, Len(t) - 3)) * 100 + ParseNat(SubSeq(t, Len(t) - 1, Len(t)))

\* f"{x:.2f}" of an amount in hundredths
Format2f(x) ==
    NatToStr(x \div 100) \o "." \o Ch(DigitString, ((x % 100) \div 10) + 1)
        \o Ch(DigitString, (x % 10) + 1)

RECURSIVE DropTrailingZeros(_)
DropTrailingZeros(s) ==
    IF s # "" /\ Ch(s, Len(s)) = "0" THEN DropTrailingZeros(SubSeq(s, 1, Len(s) - 1)) ELSE s

\* float(s) of a quantity \d+(\.\d+)?: the value num / 10^scale, scale the least possible
qty_to_float(s) ==
    LET dots == {k \in 1..Len(s) : Ch(s, k) = "."}
        ip == IF dots = {} THEN s ELSE SubSeq(s, 1, Min(dots) - 1)
        fp == IF dots = {} THEN "" ELSE DropTrailingZeros(SubSeq(s, Min(dots) + 1, Len(s)))
    IN [num |-> ParseNat(ip \o fp), scale |-> Len(fp)]

-----------------------------------------------------------------------------
(* parse_header                                                            *)

\* the first of the line indices in hits, 0 when there is none
FirstLine(hits) == IF hits = {} THEN 0 ELSE Min(hits)

IsSupplierLine(line) == Contains(Upper(line), "SDN BHD")

IsAddressStop(nxt) ==
    \/ Strip(nxt) = ""
    \/ Contains(Upper(nxt), "CASH SALE")
    \/ Contains(Upper(nxt), "INVOICE")

RECURSIVE supplier_address_lines(_, _)
\* the while loop over the lines that follow the supplier line
supplier_address_lines(lines, j) ==
    IF j > Len(lines) \/ IsAddressStop(lines[j]) THEN <<>>
    ELSE <<Strip(lines[j])>> \o supplier_address_lines(lines, j + 1)

IsDocTypeLine(line) ==
    LET up == Upper(line)
    IN Contains(up, "CASH SALE") \/ Contains(up, "CASH SALES") \/ Contains(up, "INVOICE")

\* [A-Z0-9\-] under re.IGNORECASE, read on the upper-cased text
NumberClass == UpperLetters \cup Digits \cup {"-"}

RECURSIVE WordsEnd(_, _, _)
\* the literal words, \s* between them, tried at position i of up: the index after
\* the last word, 0 when they do not match
WordsEnd(up, i, words) ==
    IF words = <<>> THEN i
    ELSE LET w == Head(words)
         IN IF Slice(up, i, i + Len(w) - 1) # w THEN 0
            ELSE IF Len(words) = 1 THEN i + Len(w)
            ELSE WordsEnd(up, RunEnd(up, i + Len(w), WS) + 1, Tail(words))

\* <words> \.? \s* [:\-]? \s* ([A-Z0-9\-]+) tried at position i: the group's first and
\* last index, <<0, 0>> when there is no match at i
LabelMatchAt(up, i, words) ==
    LET p == WordsEnd(up, i, words)
    IN IF p = 0 THEN <<0, 0>>
       ELSE LET p1 == IF p <= Len(up) /\ Ch(up, p) = "." THEN p + 1 ELSE p
                p2 == RunEnd(up, p1, WS) + 1
                sep == p2 <= Len(up) /\ Ch(up, p2) \in {":", "-"}
                p3 == IF sep THEN RunEnd(up, p2 + 1, WS) + 1 ELSE p2
                e3 == RunEnd(up, p3, NumberClass)
            IN IF e3 >= p3 THEN <<p3, e3>>
               \* nothing after the separator: a "-" is given back and starts the number
               ELSE IF sep /\ Ch(up, p2) = "-" THEN <<p2, RunEnd(up, p2, NumberClass)>>
               ELSE <<0, 0>>

\* re.search of a label pattern: the group at the leftmost match, "" when none
LabelSearch(text, words) ==
    LET up == Upper(text)
        hits == {i \in 1..Len(up) : LabelMatchAt(up, i, words)[1] # 0}
    IN IF hits = {} THEN [found |-> FALSE, number |-> ""]
       ELSE LET g == LabelMatchAt(up, Min(hits), words)
            IN [found |-> TRUE, number |-> SubSeq(text, g[1], g[2])]

\* \b<prefix>\d{n}\b under re.IGNORECASE tried at position i
BareMatchAt(up, i, prefix, n) ==
    LET d == i + Len(prefix)
    IN /\ d + n - 1 <= Len(up)
       /\ SubSeq(up, i, d - 1) = prefix
       /\ \A k \in d..(d + n - 1) : Ch(up, k) \in Digits
       /\ (i = 1 \/ Ch(up, i - 1) \notin WordChars)
       /\ (d + n > Len(up) \/ Ch(up, d + n) \notin WordChars)

\* re.search of a bare pattern: the whole match at the leftmost position
BareSearch(text, prefix, n) ==
    LET up == Upper(text)
        hits == {i \in 1..Len(up) : BareMatchAt(up, i, prefix, n)}
    IN IF hits = {} THEN [found |-> FALSE, number |-> ""]
       ELSE [found |-> TRUE,
             number |-> SubSeq(text, Min(hits), Min(hits) + Len(prefix) + n - 1)]

RECURSIVE FirstFound(_)
\* for pat in patterns: the number of the first search that matched, "" when none did
FirstFound(searches) ==
    IF searches = <<>> THEN ""
    ELSE IF Head(searches).found THEN Head(searches).number
    ELSE FirstFound(Tail(searches))

\* doc_number with the two bare patterns tried before the two label patterns
doc_number_bare_first(text) ==
    FirstFound(<<BareSearch(text, "SGM-", 7),
                 BareSearch(text, "CS", 6),
                 LabelSearch(text, <<"CASH", "SALE", "NO">>),
                 LabelSearch(text, <<"INVOICE", "NO">>)>>)

\* the four patterns in order, the first that matches anywhere in the text wins
doc_number(text) ==
    FirstFound(<<LabelSearch(text, <<"CASH", "SALE", "NO">>),
                 LabelSearch(text, <<"INVOICE", "NO">>),
                 BareSearch(text, "SGM-", 7),
                 BareSearch(text, "CS", 6)>>)

\* \d{2}/\d{2}/\d{4} tried at position i
DateMatchAt(s, i) ==
    /\ i + 9 <= Len(s)
    /\ \A k \in {i, i + 1, i + 3, i + 4, i + 6, i + 7, i + 8, i + 9} : Ch(s, k) \in Digits
    /\ Ch(s, i + 2) = "/"
    /\ Ch(s, i + 5) = "/"

doc_date(text) ==
    LET hits == {i \in 1..Len(text) : DateMatchAt(text, i)}
    IN IF hits = {} THEN "" ELSE SubSeq(text, Min(hits), Min(hits) + 9)

parse_header(text) ==
    LET lines == splitlines(text)
        i == FirstLine({k \in 1..Len(lines) : IsSupplierLine(lines[k])})
        t == FirstLine({k \in 1..Len(lines) : IsDocTypeLine(lines[k])})
    IN [supplier |->
            [name |-> IF i = 0 THEN "" ELSE Strip(lines[i]),
             address |-> IF i = 0 THEN ""
                         ELSE Join(supplier_address_lines(lines, i + 1), " ")],
        document |->
            [type |-> IF t = 0 THEN "" ELSE Strip(lines[t]),
             number |-> doc_number(text),
             date |-> doc_date(text)]]

-----------------------------------------------------------------------------
(* parse_items                                                             *)

RECURSIVE TokenSpans(_, _)
\* the <<first, last>> index of every whitespace-separated token of s from position i on
TokenSpans(s, i) ==
    LET b == RunEnd(s, i, WS) + 1
    IN IF b > Len(s) THEN <<>>
       ELSE LET e == RunEnd(s, b, {Ch(s, k) : k \in b..Len(s)} \ WS)
            IN <<<<b, e>>>> \o TokenSpans(s, e + 1)

AllIn(t, C) == t # "" /\ \A k \in 1..Len(t) : Ch(t, k) \in C

\* (?P<line_no>\d+)\.
IsLineNo(t) == Len(t) >= 2 /\ Ch(t, Len(t)) = "." /\ AllIn(SubSeq(t, 1, Len(t) - 1), Digits)

\* (?P<code>[A-Z0-9\-]+)
IsCode(t) == AllIn(t, UpperLetters \cup Digits \cup {"-"})

\* (?P<qty>\d+(?:\.\d+)?)
IsQty(t) ==
    LET d == RunEnd(t, 1, Digits)
    IN /\ d >= 1
       /\ \/ d = Len(t)
          \/ /\ d + 2 <= Len(t)
             /\ Ch(t, d + 1) = "."
             /\ AllIn(SubSeq(t, d + 2, Len(t)), Digits)

\* (?P<uom>[A-Z]+)
IsUom(t) == AllIn(t, UpperLetters)

\* \d{1,3}(?:,\d{3})*\.\d{2} as a whole token
IsMoney(t) == t # "" /\ MoneyMatchAt(t, 1) = Len(t)

\* (?P<disc>\d+%)
IsDisc(t) == Len(t) >= 2 /\ Ch(t, Len(t)) = "%" /\ AllIn(SubSeq(t, 1, Len(t) - 1), Digits)

\* pat.match(s) on a stripped line: [matched, item].  The pattern is anchored at both
\* ends and its fields are separated by \s+, so the amount is the last token, the
\* discount (if any), unit price, unit and quantity the ones before it, the line
\* number and code the first two, and the description what lies between.
match_item(s) ==
    LET sp == TokenSpans(s, 1)
        n == Len(sp)
        tok(k) == SubSeq(s, sp[k][1], sp[k][2])
        none == [matched |-> FALSE]
        disc == n >= 7 /\ IsDisc(tok(n - 1))
        q == IF disc THEN n - 4 ELSE n - 3
    IN IF n < 6 THEN none
       ELSE IF ~(/\ q >= 3
                 /\ IsLineNo(tok(1))
                 /\ IsCode(tok(2))
                 /\ IsQty(tok(q))
                 /\ IsUom(tok(q + 1))
                 /\ IsMoney(tok(q + 2))
                 /\ IsMoney(tok(n))
                 \* .+? and the \s+ on both sides of it need three characters at least
                 /\ (q > 3 \/ sp[3][1] - sp[2][2] - 1 >= 3))
       THEN none
       ELSE [matched |-> TRUE,
             item |->
                [line_no |-> ParseNat(SubSeq(tok(1), 1, Len(tok(1)) - 1)),
                 uom |-> tok(q + 1),
                 description |-> IF q > 3 THEN SubSeq(s, sp[3][1], sp[q - 1][2]) ELSE "",
                 qty |-> qty_to_float(tok(q)),
                 unit_price |-> to_float(tok(q + 2)),
                 line_total |-> to_float(tok(n)),
                 item_code |-> tok(2),
                 disc |-> IF disc THEN tok(n - 1) ELSE ""]]

RECURSIVE items_of_lines(_)
\* the for loop over the lines: one item per matching line, in order
items_of_lines(lines) ==
    IF lines = <<>> THEN <<>>
    ELSE LET m == match_item(Strip(Head(lines)))
         IN (IF m.matched THEN <<m.item>> ELSE <<>>) \o items_of_lines(Tail(lines))

\* parse_items that numbers its items 1, 2, ... in place of the number read
parse_items_renumbered(text) ==
    [k \in 1..Len(items_of_lines(splitlines(text))) |->
        [items_of_lines(splitlines(text))[k] EXCEPT !.line_no = k]]

parse_items(text) == items_of_lines(splitlines(text))

-----------------------------------------------------------------------------
(* parse_totals                                                            *)

\* Total\s+Qty\s+(<grouped decimal>) under re.IGNORECASE tried at position i: the
\* group's first and last index, <<0, 0>> when there is no match at i
TotalQtyMatchAt(up, i) ==
    IF Slice(up, i, i + 4) # "TOTAL" THEN <<0, 0>>
    ELSE LET a == RunEnd(up, i + 5, WS) + 1
         IN IF a = i + 5 \/ Slice(up, a, a + 2) # "QTY" THEN <<0, 0>>
            ELSE LET b == RunEnd(up, a + 3, WS) + 1
                     e == MoneyMatchAt(up, b)
                 IN IF b = a + 3 \/ e = 0 THEN <<0, 0>> ELSE <<b, e>>

NoFloat == [present |-> FALSE, value |-> 0]

SomeFloat(x) == [present |-> TRUE, value |-> x]

total_qty(text) ==
    LET up == Upper(text)
        hits == {i \in 1..Len(up) : TotalQtyMatchAt(up, i)[1] # 0}
    IN IF hits = {} THEN NoFloat
       ELSE LET g == TotalQtyMatchAt(up, Min(hits))
            IN SomeFloat(to_float(SubSeq(text, g[1], g[2])))

RECURSIVE FindAllMoney(_, _)
\* re.findall of the grouped decimal from position i on: matches left to right, not
\* overlapping
FindAllMoney(s, i) ==
    IF i > Len(s) THEN <<>>
    ELSE LET e == MoneyMatchAt(s, i)
         IN IF e = 0 THEN FindAllMoney(s, i + 1)
            ELSE <<SubSeq(s, i, e)>> \o FindAllMoney(s, e + 1)

IsWordsLine(line) == Contains(Upper(line), "RINGGIT MALAYSIA")

parse_totals(text) ==
    LET lines == splitlines(text)
        w == FirstLine({k \in 1..Len(lines) : IsWordsLine(lines[k])})
        amount_in_words == IF w = 0 THEN "" ELSE Strip(lines[w])
        nums == FindAllMoney(amount_in_words, 1)
    IN [total_qty |-> total_qty(text),
        grand_total |-> IF nums = <<>> THEN NoFloat ELSE SomeFloat(to_float(nums[Len(nums)])),
        amount_in_words |-> amount_in_words]

-----------------------------------------------------------------------------
(* Text acquisition.  What is stored at a path is a record                 *)
(*   [format: "pdf" | "image" | "corrupt", native: per-page text layer,    *)
(*    ocr: per-page (or per-image) recognition output];                    *)
(* opening a file as the wrong format, or a corrupt one, raises.  A call's *)
(* outcome is [raised |-> TRUE] or [raised |-> FALSE, ...].                *)
(* A pdf has one text layer and one rendered image per page.               *)

Raise == [raised |-> TRUE]

NativeThreshold == 100

\* what a returning acquisition gives: the text, whether pdfplumber opened the file
\* (the native layer was read) and how many times ocr_image was called
acquired(text, native_read, ocr_calls) ==
    [raised |-> FALSE, text |-> text, native_read |-> native_read, ocr_calls |-> ocr_calls]

\* extract_text_from_pdf with "at least 100" in place of "more than 100"
extract_text_from_pdf_at_least(first, second) ==
    IF first.format # "pdf" THEN Raise
    ELSE LET joined == Strip(Join(first.native, "\n"))
         IN IF Len(joined) >= NativeThreshold
            THEN acquired(joined, TRUE, 0)
            ELSE IF second.format # "pdf" THEN Raise
            ELSE acquired(Join(second.ocr, "\n"), TRUE, Len(second.ocr))

\* the path is opened twice: first is what it holds when pdfplumber.open reads it,
\* second what it holds when convert_from_path reads it, the same file unless the
\* path is written in between
extract_text_from_pdf(first, second) ==
    IF first.format # "pdf" THEN Raise
    ELSE LET joined == Strip(Join(first.native, "\n"))
         IN IF Len(joined) > NativeThreshold
            THEN acquired(joined, TRUE, 0)
            \* one ocr_image call per image of convert_from_path, in page order
            ELSE IF second.format # "pdf" THEN Raise
            ELSE acquired(Join(second.ocr, "\n"), TRUE, Len(second.ocr))

extract_text_from_image(content) ==
    IF content.format # "image" THEN Raise
    ELSE acquired(content.ocr[1], FALSE, 1)

extract_text_from_file(first, second, ext) ==
    IF Lower(ext) = "pdf" THEN extract_text_from_pdf(first, second)
    ELSE extract_text_from_image(first)

-----------------------------------------------------------------------------
(* os.path                                                                 *)

\* os.path.basename(p): what follows the last "/"
basename(p) ==
    LET seps == {k \in 1..Len(p) : Ch(p, k) = "/"}
    IN IF seps = {} THEN p ELSE Slice(p, Max(seps) + 1, Len(p))

\* os.path.splitext(p)[0]: p up to its last dot, unless that dot is among the dots the
\* file name begins with
splitext_root(p) ==
    LET seps == {k \in 1..Len(p) : Ch(p, k) = "/"}
        dots == {k \in 1..Len(p) : Ch(p, k) = "."}
        sep == IF seps = {} THEN 0 ELSE Max(seps)
        dot == IF dots = {} THEN 0 ELSE Max(dots)
    IN IF dot > sep /\ \E k \in (sep + 1)..(dot - 1) : Ch(p, k) # "."
       THEN SubSeq(p, 1, dot - 1)
       ELSE p

-----------------------------------------------------------------------------
(* extract_receipt_to_object                                               *)

\* invoice_number_of with the file name taken whole, extension included
invoice_number_of_keeps_ext(header, file_path) ==
    IF header.document.number # "" THEN header.document.number
    ELSE LET base == basename(file_path)
         IN IF base # "" THEN base ELSE "UNKNOWN"

\* header number, else the file name without its extension, else "UNKNOWN"
invoice_number_of(header, file_path) ==
    IF header.document.number # "" THEN header.document.number
    ELSE LET base == basename(file_path)
             root == splitext_root(base)
         IN IF root # "" THEN root ELSE "UNKNOWN"

\* the filter of the list comprehension
IsChargeItem(it) ==
    LET up == Upper(it.description)
    IN /\ ~Contains(up, "RINGGIT MALAYSIA")
       /\ ~Contains(up, "TOTAL QTY")
       /\ " TOTAL" # Strip(up)

charge_items_of(items) == SelectSeq(items, IsChargeItem)

RECURSIVE SumLineTotals(_)
SumLineTotals(its) ==
    IF its = <<>> THEN 0 ELSE Head(its).line_total + SumLineTotals(Tail(its))

\* total_rm_of with the two sources tried in the other order
total_rm_of_grand_first(charge_items, totals) ==
    IF totals.grand_total.present THEN Format2f(totals.grand_total.value)
    ELSE IF charge_items # <<>> THEN Format2f(SumLineTotals(charge_items))
    ELSE ""

total_rm_of(charge_items, totals) ==
    IF charge_items # <<>> THEN Format2f(SumLineTotals(charge_items))
    ELSE IF totals.grand_total.present THEN Format2f(totals.grand_total.value)
    ELSE ""

table_rows_of(items) ==
    [k \in 1..Len(items) |->
        ("Product Description" :> items[k].description)
        @@ ("Quantity" :> items[k].qty)
        @@ ("Unit Price" :> Format2f(items[k].unit_price))
        @@ ("Amount" :> Format2f(items[k].line_total))]

\* is_invoice_flag_of without the "P" prefix
is_invoice_flag_of_no_p(header, invoice_number) ==
    LET doc_type == Upper(header.document.type)
    IN \/ Contains(doc_type, "INVOICE")
       \/ StartsWith(invoice_number, "CS")
       \/ StartsWith(invoice_number, "SGM")

is_invoice_flag_of(header, invoice_number) ==
    LET doc_type == Upper(header.document.type)
    IN \/ Contains(doc_type, "INVOICE")
       \/ StartsWith(invoice_number, "CS")
       \/ StartsWith(invoice_number, "SGM")
       \/ StartsWith(invoice_number, "P")

TwoDigits(n) == IF n < 10 THEN "0" \o NatToStr(n) ELSE NatToStr(n)

\* f"{minutes:02d}:{seconds:02d}" of the elapsed whole seconds
processing_time_str(elapsed) == TwoDigits(elapsed \div 60) \o ":" \o TwoDigits(elapsed % 60)

\* the local variables once the three parsers, the fallback and the filter have run
locals_record(raw_text, header, items, totals, invoice_number, charge_items) ==
    [raw_text |-> raw_text,
     header |-> header,
     items |-> items,
     totals |-> totals,
     invoice_number |-> invoice_number,
     charge_items |-> charge_items,
     total_rm |-> total_rm_of(charge_items, totals),
     area |-> extract_area_from_address(header.supplier.address),
     is_invoice_flag |-> is_invoice_flag_of(header, invoice_number)]

\* the invoice-number fallback and the item filter applied to the parsers' results
locals_parsed(file_path, raw_text, header, items, totals) ==
    locals_record(raw_text, header, items, totals,
                  invoice_number_of(header, file_path), charge_items_of(items))

\* the local variables of a call whose acquisition returned raw_text
locals_of(file_path, raw_text) ==
    locals_parsed(file_path, raw_text,
                  parse_header(raw_text), parse_items(raw_text), parse_totals(raw_text))

\* single_file_data with a document without items reported as a failure
single_file_data_needs_items(l, elapsed) ==
    [status |-> l.items # <<>>,
     message |-> "File processed successfully",
     data |->
        ("Invoice Number" :> l.invoice_number)
        @@ ("Date of Invoice" :> l.header.document.date)
        @@ ("Total RM" :> l.total_rm)
        @@ ("Dealer Name" :> l.header.supplier.name)
        @@ ("Area" :> l.area)
        @@ ("table" :> table_rows_of(l.items))
        @@ ("isInvoice" :> l.is_invoice_flag),
     status_code |-> 200,
     isInvoice |-> l.is_invoice_flag,
     invoice_number |-> l.invoice_number,
     processing_time |-> processing_time_str(elapsed)]

single_file_data(l, elapsed) ==
    [status |-> TRUE,
     message |-> "File processed successfully",
     data |->
        ("Invoice Number" :> l.invoice_number)
        @@ ("Date of Invoice" :> l.header.document.date)
        @@ ("Total RM" :> l.total_rm)
        @@ ("Dealer Name" :> l.header.supplier.name)
        @@ ("Area" :> l.area)
        @@ ("table" :> table_rows_of(l.items))
        @@ ("isInvoice" :> l.is_invoice_flag),
     status_code |-> 200,
     isInvoice |-> l.is_invoice_flag,
     invoice_number |-> l.invoice_number,
     processing_time |-> processing_time_str(elapsed)]

\* the outcome of a call whose local variables are l
returned(l, elapsed) ==
    [raised |-> FALSE, locals |-> l, value |-> single_file_data(l, elapsed)]

\* the outcome of a call whose acquisition had the outcome acq
extract_after(file_path, acq, elapsed) ==
    IF acq.raised THEN [raised |-> TRUE, locals |-> <<>>, value |-> <<>>]
    ELSE returned(locals_of(file_path, acq.text), elapsed)

\* the call on a path that holds first, then second (the same file unless the path is
\* written during the call): it raises when acquisition does, else returns the record
extract_receipt_to_object(file_path, ext, first, second, elapsed) ==
    extract_after(file_path, extract_text_from_file(first, second, ext), elapsed)

-----------------------------------------------------------------------------
(* The area resolver applied to bounded addresses.                         *)

MaxTokens == 3

AddrPrefixes == {"", "NO 5, JLN 12/1, ", "A"}

AddrPostcodes == {"43650", "4365", "436501"}

\* between the postcode and the tokens: a space, nothing, a carriage return and a
\* vertical tab
AddrGaps == {" ", "", "\r" \o Controls[1]}

AddrTokens == {"B.B.BANGI", "KL", "Kajang", "CASH", "NO", "JB."}

AddrSuffixes == {"", ", SELANGOR", " 2"}

RECURSIVE SeqsUpTo(_, _)
\* the sequences over S of length at most n
SeqsUpTo(S, n) ==
    IF n = 0 THEN {<<>>}
    ELSE LET shorter == SeqsUpTo(S, n - 1)
         IN shorter \cup {Append(q, x) : q \in {r \in shorter : Len(r) = n - 1}, x \in S}

Addresses ==
    {""} \cup
    {p \o c \o g \o Join(t, " ") \o x :
        p \in AddrPrefixes, c \in AddrPostcodes, g \in AddrGaps,
        t \in SeqsUpTo(AddrTokens, MaxTokens), x \in AddrSuffixes}

AreaInit ==
    /\ address \in Addresses
    /\ area = ""
    /\ apc = "start"
    /\ OneIdle
    /\ BatchIdle
    /\ StatsIdle
    /\ WebIdle

ResolveArea ==
    /\ apc = "start"
    /\ area' = extract_area_from_address(address)
    /\ apc' = "done"
    /\ UNCHANGED <<address, oneVars, batchVars, statsVars, webVars>>

AreaNext == ResolveArea

SpecArea == AreaInit /\ [][AreaNext]_vars

-----------------------------------------------------------------------------
(* Properties of the area resolver (under SpecArea).                       *)

\* the token run that follows the postal token of addr, <<>> when there is none
TokenRun(addr) ==
    LET m == AreaSearch(Upper(addr))
    IN IF m.found THEN Split(Replace(m.group, ".", " ")) ELSE <<>>

\* the index of the first stop word of tokens, 0 when there is none
FirstStopWord(tokens) ==
    LET stops == {k \in 1..Len(tokens) : tokens[k] \in stop_words}
    IN IF stops = {} THEN 0 ELSE Min(stops)

\* result is cand[k] title-cased, k being the last index of a token longer than 2
\* characters, or the last index when no token is longer than 2
IsAreaOf(result, cand) ==
    \E k \in 1..Len(cand) :
        /\ result = Ch(cand[k], 1) \o Lower(Slice(cand[k], 2, Len(cand[k])))
        /\ \A j \in (k + 1)..Len(cand) : Len(cand[j]) <= 2
        /\ Len(cand[k]) > 2 \/ k = Len(cand)

\* C10 as stated: after a postal token and a non-empty token run, the area is the last
\* token longer than 2 characters (else the last token), title-cased, among the tokens
\* before the first stop word, or among the whole run when it holds no stop word
C10_AreaBeforeFirstStopWord ==
    (apc = "done" /\ TokenRun(address) # <<>>) =>
        LET tokens == TokenRun(address)
            s == FirstStopWord(tokens)
        IN IsAreaOf(area, IF s = 0 THEN tokens ELSE SubSeq(tokens, 1, s - 1))

\* C10 amended: the candidates are the tokens before the first stop word, or the whole
\* run, stop words included, when no stop word occurs or the first token is one; the
\* area is the last candidate longer than 2 characters (else the last), title-cased
C10_AreaFromCandidates ==
    (apc = "done" /\ TokenRun(address) # <<>>) =>
        LET tokens == TokenRun(address)
            s == FirstStopWord(tokens)
        IN IsAreaOf(area, IF s \in {0, 1} THEN tokens ELSE SubSeq(tokens, 1, s - 1))

\* a run that ends in a stop word, with a short candidate after a long one
C10_Witness ==
    /\ apc = "done"
    /\ TokenRun(address) = <<"KAJANG", "KL", "CASH">>
    /\ area = "Kajang"

-----------------------------------------------------------------------------
(* One call of extract_receipt_to_object on bounded documents.             *)

MaxItemLines == 2

HeaderBlocks ==
    { <<>>,
      <<"VIVA TALENT SDN BHD", "NO 5, JLN 12/1, SEKSYEN 12,", "43650 B.B.BANGI",
        "CASH SALE", "CASH SALE No. : CS123456  Date 12/03/2024">>,
      <<"ACME SDN BHD", "12 JLN BESAR 43000 KAJANG", "", "TAX INVOICE",
        "Invoice No: 7788", "01/02/2023">>,
      <<"DELIVERY NOTE", "Ref SGM-0001156">>,
      <<"cash sale", "ref cs654321">>,
      <<"Tax invoice">>,
      <<"QUOTATION 2024">> }

ItemLines ==
    { "1. PCC-50KG 50KG CEMENT BAG 20.00 BAG 22.00 440.00",
      "6. UP-3B 4IN PIPE CS 2.00 LGTH 101.00 30% 141.40",
      "2. X TOTAL 1.00 BAG 5.00 5.00",
      "3. T-1 Total Qty adj 1.5 PCS 1,000.00 1,500.00",
      "4. RM-1 Ringgit Malaysia fee 1.00 PCS 2.00 2.00",
      "Subtotal 581.40" }

TotalsBlocks ==
    { <<>>,
      <<"Total Qty 77.00", "RINGGIT MALAYSIA EMPAT RIBU TUJUH RATUS 4,793.50">>,
      <<"Ringgit Malaysia : dua ratus sahaja">> }

Texts ==
    {Join(h \o i \o t, "\n") :
        h \in HeaderBlocks, i \in SeqsUpTo(ItemLines, MaxItemLines), t \in TotalsBlocks}

TextsWithoutItems == {Join(h \o t, "\n") : h \in HeaderBlocks, t \in TotalsBlocks}

\* texts as recognition gives them on some platforms: lines that end in "\r\n", and a
\* form feed, a vertical tab and a unit separator after the last one
TextsCrLf ==
    {Join(h \o i \o t, "\r\n") \o "\r\n\f" \o Controls[1] \o Controls[5] :
        h \in HeaderBlocks, i \in SeqsUpTo(ItemLines, 1), t \in TotalsBlocks}

\* what a file that holds text t can be: an image, a pdf with a text layer, a scanned pdf
ImageOf(t) == [format |-> "image", native |-> <<>>, ocr |-> <<t>>]

NativePdfOf(t) == [format |-> "pdf", native |-> <<t>>, ocr |-> <<"">>]

ScannedPdfOf(t) == [format |-> "pdf", native |-> <<"">>, ocr |-> <<t>>]

\* a pdf with a text layer and a rendering that reads otherwise
TextPdfOf(t, o) == [format |-> "pdf", native |-> <<t>>, ocr |-> <<o>>]

Corrupt == [format |-> "corrupt", native |-> <<>>, ocr |-> <<>>]

ElapsedSeconds == {0, 75}

\* the arguments of a call and what the file system and the clock give it.  A path
\* with no file name cannot be opened.
Calls ==
    {[path |-> "uploads/receipt_007.png", ext |-> "png", content |-> ImageOf(t), elapsed |-> 0] :
        t \in Texts}
    \cup {[path |-> "uploads/P0042.pdf", ext |-> "pdf", content |-> NativePdfOf(t), elapsed |-> e] :
        t \in TextsWithoutItems, e \in ElapsedSeconds}
    \cup {[path |-> "scan.v2.PDF", ext |-> "PDF", content |-> ScannedPdfOf(t), elapsed |-> 0] :
        t \in TextsWithoutItems}
    \cup {[path |-> "uploads/.jpg", ext |-> "jpg", content |-> ImageOf(t), elapsed |-> 0] :
        t \in TextsWithoutItems}
    \cup {[path |-> "uploads/scan_crlf.jpeg", ext |-> "jpeg", content |-> ImageOf(t), elapsed |-> 0] :
        t \in TextsCrLf}
    \cup {[path |-> "uploads/CS_old.jpg", ext |-> "jpg", content |-> NativePdfOf(t), elapsed |-> 0] :
        t \in TextsWithoutItems}
    \cup {[path |-> p, ext |-> "pdf", content |-> Corrupt, elapsed |-> 0] :
        p \in {"uploads/broken.pdf", "uploads/", ""}}

Init ==
    /\ call \in Calls
    /\ ret = <<>>
    /\ pc = "start"
    /\ AreaIdle
    /\ BatchIdle
    /\ StatsIdle
    /\ WebIdle

ExtractReturns ==
    /\ pc = "start"
    /\ \E r \in {extract_receipt_to_object(call.path, call.ext, call.content, call.content, call.elapsed)} :
        /\ ~r.raised
        /\ ret' = r
    /\ pc' = "returned"
    /\ UNCHANGED <<call, areaVars, batchVars, statsVars, webVars>>

\* the call raises when the acquisition of line 273 does
ExtractRaises ==
    /\ pc = "start"
    /\ extract_text_from_file(call.content, call.content, call.ext).raised
    /\ \E r \in {extract_receipt_to_object(call.path, call.ext, call.content, call.content, call.elapsed)} :
        /\ r.raised
        /\ ret' = r
    /\ pc' = "raised"
    /\ UNCHANGED <<call, areaVars, batchVars, statsVars, webVars>>

Next == ExtractReturns \/ ExtractRaises

Spec == Init /\ [][Next]_vars

-----------------------------------------------------------------------------
(* Properties of one call of extract_receipt_to_object (under Spec).       *)

RECURSIVE SumOver(_, _)
\* the sum of the line totals of the items at the indices in S
SumOver(items, S) ==
    IF S = {} THEN 0
    ELSE LET k == CHOOSE x \in S : TRUE
         IN items[k].line_total + SumOver(items, S \ {k})

\* t is the amount x (in hundredths) written with two decimals
IsTwoDecimalsOf(t, x) ==
    /\ Len(t) >= 4
    /\ Ch(t, Len(t) - 2) = "."
    /\ AllIn(SubSeq(t, 1, Len(t) - 3), Digits)
    /\ AllIn(SubSeq(t, Len(t) - 1, Len(t)), Digits)
    /\ ParseNat(SubSeq(t, 1, Len(t) - 3)) * 100 + ParseNat(SubSeq(t, Len(t) - 1, Len(t))) = x

\* the grand-total fallback: the grand total with two decimals, "" when there is none
IsGrandTotalFallback(t, totals) ==
    IF totals.grand_total.present THEN IsTwoDecimalsOf(t, totals.grand_total.value)
    ELSE t = ""

\* the items the filter of the code keeps
Remaining == {k \in 1..Len(ret.locals.items) : IsChargeItem(ret.locals.items[k])}

\* C2: when an item remains after the summary-line filter, 'Total RM' is the sum of the
\* remaining items' line_total with two decimals, whatever grand_total is; when none
\* remains it is grand_total with two decimals, or "" when grand_total is null.
C2_TotalPrefersItemSum ==
    pc = "returned" =>
        LET t == ret.value.data["Total RM"]
        IN IF Remaining # {}
           THEN IsTwoDecimalsOf(t, SumOver(ret.locals.items, Remaining))
           ELSE IsGrandTotalFallback(t, ret.locals.totals)

\* an item remains and the words line gives another total than the items' sum
C2_Witness ==
    /\ pc = "returned"
    /\ Remaining # {}
    /\ ret.locals.totals.grand_total.present
    /\ ret.locals.totals.grand_total.value # SumOver(ret.locals.items, Remaining)
    /\ ret.value.data["Total RM"] = "440.00"

\* the base name of a path without its extension
StemOf(path) == splitext_root(basename(path))

\* C3: the invoice number is header.document.number when that is not empty, else the
\* file's base name without extension when that is not empty, else "UNKNOWN"; it is
\* never empty, and the top-level invoice_number equals data['Invoice Number'].
C3_InvoiceNumberFallback ==
    pc = "returned" =>
        LET n == ret.value.invoice_number
            h == ret.locals.header.document.number
        IN /\ n = (IF h # "" THEN h
                   ELSE IF StemOf(call.path) # "" THEN StemOf(call.path)
                   ELSE "UNKNOWN")
           /\ n # ""
           /\ ret.value.data["Invoice Number"] = n

\* no number in the header, and the file name gives it
C3_Witness ==
    /\ pc = "returned"
    /\ ret.locals.header.document.number = ""
    /\ call.path = "uploads/receipt_007.png"
    /\ ret.value.invoice_number = "receipt_007"

\* sub occurs in s, letter case ignored
ContainsNoCase(s, sub) ==
    \E i \in 1..(Len(s) - Len(sub) + 1) : Lower(SubSeq(s, i, i + Len(sub) - 1)) = Lower(sub)

HasInvoicePrefix(n) ==
    \E p \in {"CS", "SGM", "P"} : Len(n) >= Len(p) /\ SubSeq(n, 1, Len(p)) = p

\* C4: isInvoice is true exactly when the document-type label contains "INVOICE"
\* (case-insensitive) or the resolved invoice number starts with "CS", "SGM" or "P";
\* the top-level isInvoice equals data.isInvoice.
C4_IsInvoiceFlag ==
    pc = "returned" =>
        /\ ret.value.isInvoice
            <=> \/ ContainsNoCase(ret.locals.header.document.type, "INVOICE")
                \/ HasInvoicePrefix(ret.value.invoice_number)
        /\ ret.value.data["isInvoice"] = ret.value.isInvoice

\* a number that comes from the file name, starts with "P", under no invoice label
C4_Witness ==
    /\ pc = "returned"
    /\ ret.locals.header.document.number = ""
    /\ ~ContainsNoCase(ret.locals.header.document.type, "INVOICE")
    /\ ret.value.invoice_number = "P0042"
    /\ ret.value.isInvoice

\* C5: a call that returns gives a record with status = TRUE, also with no item, no
\* header field and no total recognised; the call itself never gives a status = FALSE
\* record, and an exception of the acquisition leaves the call as an exception.
C5_ReturnedStatusTrue ==
    /\ pc = "returned" =>
        /\ ~ret.raised
        /\ ret.value.status = TRUE
        /\ ~extract_text_from_file(call.content, call.content, call.ext).raised
    /\ pc = "raised" =>
        /\ ret.raised
        /\ ret.value = <<>>
        /\ extract_text_from_file(call.content, call.content, call.ext).raised

\* nothing was recognised and the record is a success all the same
C5_Witness ==
    /\ pc = "returned"
    /\ ret.locals.raw_text # ""
    /\ ret.locals.items = <<>>
    /\ ret.locals.header.supplier.name = ""
    /\ ret.locals.header.document.type = ""
    /\ ret.locals.header.document.number = ""
    /\ ret.locals.header.document.date = ""
    /\ ~ret.locals.totals.grand_total.present
    /\ ret.value.data["Total RM"] = ""
    /\ ret.value.status = TRUE

\* the summary lines as the specification names them
IsSummaryDescription(d) ==
    \/ ContainsNoCase(d, "RINGGIT MALAYSIA")
    \/ ContainsNoCase(d, "TOTAL QTY")
    \/ Upper(Strip(d)) = "TOTAL"

NotSummary == {k \in 1..Len(ret.locals.items) : ~IsSummaryDescription(ret.locals.items[k].description)}

\* C7: an item whose description contains "RINGGIT MALAYSIA" or "TOTAL QTY"
\* (case-insensitive) or is exactly "TOTAL" adds nothing to 'Total RM'; when every item
\* is such an item the grand-total fallback is used.
C7_SummaryItemsExcluded ==
    pc = "returned" =>
        LET t == ret.value.data["Total RM"]
        IN IF NotSummary # {}
           THEN IsTwoDecimalsOf(t, SumOver(ret.locals.items, NotSummary))
           ELSE IsGrandTotalFallback(t, ret.locals.totals)

\* The item pattern of parse_items read as a grammar: the sets of lengths of the
\* prefixes of a line that each part of the pattern can have consumed.

\* one or more characters of C after a prefix of a length in P
PlusFrom(s, P, C) ==
    {j \in 1..Len(s) : \E i \in P : i < j /\ \A k \in (i + 1)..j : Ch(s, k) \in C}

\* lo to hi characters of C after a prefix of a length in P
CountFrom(s, P, C, lo, hi) ==
    {j \in 0..Len(s) : \E i \in P : (j - i) \in lo..hi /\ \A k \in (i + 1)..j : Ch(s, k) \in C}

\* the character c after a prefix of a length in P
LitFrom(s, P, c) == {i + 1 : i \in {p \in P : p < Len(s) /\ Ch(s, p + 1) = c}}

\* any characters but "\n", one at least
AnyFrom(s, P) == {j \in 1..Len(s) : \E i \in P : i < j /\ \A k \in (i + 1)..j : Ch(s, k) # "\n"}

\* an optional part: Q is what the part makes of P
OptionFrom(P, Q) == P \cup Q

RECURSIVE GroupsFrom(_, _, _)
\* (?:,ddd)* : P closed under a comma and three digits; Q is the set tried last
GroupsFrom(s, P, Q) ==
    IF Q \subseteq P /\ CountFrom(s, LitFrom(s, P, ","), Digits, 3, 3) \subseteq P THEN P
    ELSE GroupsFrom(s, P \cup Q, CountFrom(s, LitFrom(s, P \cup Q, ","), Digits, 3, 3))

\* d{1,3}(?:,ddd)*.dd
MoneyFrom(s, P) ==
    CountFrom(s, LitFrom(s, GroupsFrom(s, CountFrom(s, P, Digits, 1, 3), {}), "."), Digits, 2, 2)

\* d+(?:.d+)?
QtyFrom(s, P) ==
    OptionFrom(PlusFrom(s, P, Digits),
               PlusFrom(s, LitFrom(s, PlusFrom(s, P, Digits), "."), Digits))

\* the sequence number and its dot, the code, the description and the blanks after each
DescriptionEnds(s) ==
    PlusFrom(s,
        AnyFrom(s,
            PlusFrom(s,
                PlusFrom(s,
                    PlusFrom(s,
                        LitFrom(s, PlusFrom(s, OptionFrom({0}, PlusFrom(s, {0}, WS)), Digits), "."),
                        WS),
                    UpperLetters \cup Digits \cup {"-"}),
                WS)),
        WS)

\* then the quantity, the unit and the unit price
UnitPriceEnds(s) ==
    MoneyFrom(s,
        PlusFrom(s,
            PlusFrom(s, PlusFrom(s, QtyFrom(s, DescriptionEnds(s)), WS), UpperLetters),
            WS))

\* the optional discount and the amount after a unit price that ends at a length in U
AmountEndsAfter(s, U) ==
    MoneyFrom(s,
        PlusFrom(s,
            OptionFrom(U, LitFrom(s, PlusFrom(s, PlusFrom(s, U, WS), Digits), "%")),
            WS))

\* then the optional discount and the amount
AmountEnds(s) == AmountEndsAfter(s, UnitPriceEnds(s))

\* the whole of s is consumed when the amount ends at a length in A
ConsumedWhole(s, A) == Len(s) \in OptionFrom(A, PlusFrom(s, A, WS))

\* the trimmed line is an item line from its first character to its last
MatchesGrammar(line) == ConsumedWhole(Strip(line), AmountEnds(Strip(line)))

\* the sequence number written at the start of a line
SeqNoOf(line) == ParseNat(SubSeq(Strip(line), 1, RunEnd(Strip(line), 1, Digits)))

\* the lines of the text that are item lines, in the order of the text
MatchingLines(text) == SelectSeq(splitlines(text), LAMBDA ln : MatchesGrammar(ln))

\* the items are the item lines of lines, one for one, each with its own number
ItemsFollow(items, lines) ==
    /\ Len(items) = Len(lines)
    /\ \A k \in 1..Len(items) : items[k].line_no = SeqNoOf(lines[k])

\* C11: parse_items returns one item for every line of the text that matches the item
\* grammar and none for any other line, in the order of the text, and the line_no of
\* each item is the sequence number written on its line: repeated numbers and gaps
\* stay as they are; a text with lines that do not match still returns.
C11_OneItemPerMatchingLine ==
    pc = "returned" => ItemsFollow(ret.locals.items, MatchingLines(ret.locals.raw_text))

\* two item lines with the same number not starting at 1, among lines that do not match
C11_Witness ==
    /\ pc = "returned"
    /\ Len(ret.locals.items) = 2
    /\ ret.locals.items[1].line_no = 6
    /\ ret.locals.items[2].line_no = 6
    /\ Len(splitlines(ret.locals.raw_text)) > 2

-----------------------------------------------------------------------------
(* extract_text_from_file applied to bounded documents: call is the stored *)
(* file and the extension passed, ret the outcome of the acquisition.      *)

MaxPages == 2

\* text layers of a page: none, 49 and 50 characters, 50 characters followed by two
\* blanks, and 101 characters
NativePages ==
    { "",
      "VIVA TALENT SDN BHD 43650 B.B.BANGI CASH SALE No.",
      "ACME SDN BHD 12 JLN BESAR 43000 KAJANG TAX INVOICE",
      "DELIVERY NOTE Ref SGM-0001156 01/02/2023 Total Qty  ",
      "VIVA TALENT SDN BHD 43650 B.B.BANGI CASH SALE No. CS123456 Date 12/03/2024 Total Qty 77.00 RINGGIT MA" }

\* what ocr_image makes of a rendered page
OcrPages == {"", "CASH SALE\r\nCS123456", "Total Qty 77.00\n\f"}

\* the pdf files of up to MaxPages pages
PdfFiles ==
    UNION {{[format |-> "pdf", native |-> n, ocr |-> o] :
                n \in [1..k -> NativePages], o \in [1..k -> OcrPages]} : k \in 0..MaxPages}

ImageFiles == {ImageOf(t) : t \in OcrPages}

AcquireCalls ==
    {[content |-> c, ext |-> e] :
        c \in PdfFiles \cup ImageFiles \cup {Corrupt}, e \in {"pdf", "PDF", "png", "jpeg"}}

AcquireInit ==
    /\ call \in AcquireCalls
    /\ ret = <<>>
    /\ pc = "start"
    /\ AreaIdle
    /\ BatchIdle
    /\ StatsIdle
    /\ WebIdle

AcquireReturns ==
    /\ pc = "start"
    /\ ~extract_text_from_file(call.content, call.content, call.ext).raised
    /\ ret' = extract_text_from_file(call.content, call.content, call.ext)
    /\ pc' = "acquired"
    /\ UNCHANGED <<call, areaVars, batchVars, statsVars, webVars>>

AcquireRaises ==
    /\ pc = "start"
    /\ extract_text_from_file(call.content, call.content, call.ext).raised
    /\ ret' = Raise
    /\ pc' = "failed"
    /\ UNCHANGED <<call, areaVars, batchVars, statsVars, webVars>>

AcquireNext == AcquireReturns \/ AcquireRaises

SpecAcquire == AcquireInit /\ [][AcquireNext]_vars

\* the text layer of the pages of a pdf as the code measures it
NativeText(content) == Strip(Join(content.native, "\n"))

\* C12: for a pdf, the stripped, newline-joined native text is returned and ocr_image
\* is never called when that text is longer than 100 characters; when it has 100
\* characters or fewer the result is the recognition output of every rendered page,
\* in page order, joined with newlines.  For any other extension the native layer is
\* not read and ocr_image is called once, on the image.
C12_NativeTextThreshold ==
    pc = "acquired" =>
        IF Lower(call.ext) = "pdf"
        THEN IF Len(NativeText(call.content)) > 100
             THEN ret.text = NativeText(call.content) /\ ret.ocr_calls = 0
             ELSE /\ ret.text = Join(call.content.ocr, "\n")
                  /\ ret.ocr_calls = Len(call.content.ocr)
        ELSE /\ ~ret.native_read
             /\ ret.ocr_calls = 1
             /\ ret.text = call.content.ocr[1]

\* a two-page pdf whose text layer has exactly 100 characters once stripped, read by
\* recognition of both pages
C12_Witness ==
    /\ pc = "acquired"
    /\ call.ext = "PDF"
    /\ Len(Join(call.content.native, "\n")) = 102
    /\ Len(NativeText(call.content)) = 100
    /\ ret.ocr_calls = 2
    /\ ret.text = "Total Qty 77.00\n\f\nCASH SALE\r\nCS123456"

-----------------------------------------------------------------------------
(* parse_header applied to bounded texts: call is the text, ret the header *)
(* returned.                                                               *)

MaxHeaderLines == 3

\* lines with a number label, a bare number, a supplier, a document type, an address
\* that begins with "NO", a date, a label cut by "\r\n" with a form feed at its end,
\* and a label with a unit separator for a blank and a file separator at its end
HeaderLines ==
    { "CASH SALE No. : CS123456",
      "Invoice No: 7788",
      "Ref SGM-0001156",
      "ref cs654321 12/03/2024",
      "ACME SDN BHD",
      "CASH SALE",
      "NO 5, JLN 12/1",
      "TAX INVOICE",
      "INVOICE\r\nNo: A-7\f",
      "Ref" \o Controls[5] \o "B-9" \o Controls[2] \o "TAX INVOICE" }

HeaderTexts == {Join(ls, "\n") : ls \in SeqsUpTo(HeaderLines, MaxHeaderLines)}

HeaderInit ==
    /\ call \in HeaderTexts
    /\ ret = <<>>
    /\ pc = "start"
    /\ AreaIdle
    /\ BatchIdle
    /\ StatsIdle
    /\ WebIdle

ParseHeader ==
    /\ pc = "start"
    /\ ret' = parse_header(call)
    /\ pc' = "parsed"
    /\ UNCHANGED <<call, areaVars, batchVars, statsVars, webVars>>

HeaderNext == ParseHeader

SpecHeader == HeaderInit /\ [][HeaderNext]_vars

\* C13: the document number is the capture group of the CASH SALE No. label pattern if
\* that pattern matches anywhere in the text, else the capture group of the INVOICE NO
\* label pattern if that one matches anywhere, else the whole match of SGM-7digits,
\* else the whole match of CS6digits, else the empty string: the position of the
\* matches in the text plays no part, and the number is a function of the text alone,
\* whatever the supplier, type and date scans find.
C13_NumberByPatternPriority ==
    pc = "parsed" =>
        ret.document.number =
            IF LabelSearch(call, <<"CASH", "SALE", "NO">>).found
            THEN LabelSearch(call, <<"CASH", "SALE", "NO">>).number
            ELSE IF LabelSearch(call, <<"INVOICE", "NO">>).found
            THEN LabelSearch(call, <<"INVOICE", "NO">>).number
            ELSE IF BareSearch(call, "SGM-", 7).found
            THEN BareSearch(call, "SGM-", 7).number
            ELSE IF BareSearch(call, "CS", 6).found
            THEN BareSearch(call, "CS", 6).number
            ELSE ""

\* a bare SGM number on the first line, a supplier, and an INVOICE NO label on the last
\* line: the label's number wins
C13_Witness ==
    /\ pc = "parsed"
    /\ call = "Ref SGM-0001156\nACME SDN BHD\nInvoice No: 7788"
    /\ ret.supplier.name = "ACME SDN BHD"
    /\ ret.document.type = "Invoice No: 7788"
    /\ ret.document.number = "7788"

-----------------------------------------------------------------------------
(* extract_multiple_receipts_to_json                                       *)

\* single_obj.get("invoice_number") or "UNKNOWN"
result_key(single_obj) ==
    IF single_obj.invoice_number = "" THEN "UNKNOWN" ELSE single_obj.invoice_number

\* os.path.splitext(os.path.basename(file_path))[0] or "UNKNOWN"
placeholder_key(file_path) ==
    LET stem == splitext_root(basename(file_path))
    IN IF stem = "" THEN "UNKNOWN" ELSE stem

\* what the except branch records for a document whose extraction raised e
placeholder(file_path, e) ==
    [status |-> FALSE,
     message |-> "Error processing file: " \o e,
     data |-> <<>>,
     status_code |-> 500,
     isInvoice |-> FALSE,
     invoice_number |-> placeholder_key(file_path),
     processing_time |-> "00:00"]

\* store with an entry already under the key left as it is
store_keep_first(dict, key, obj) ==
    [k \in DOMAIN dict \cup {key} |-> IF k \in DOMAIN dict THEN dict[k] ELSE obj]

\* results[invoice_number] = ...
store(dict, key, obj) ==
    [k \in DOMAIN dict \cup {key} |-> IF k = key THEN obj ELSE dict[k]]

\* top_level_of with a batch reported successful as soon as one document went through
top_level_of_any_processed(dict, count, total_files) ==
    [status |-> count > 0,
     message |-> NatToStr(count) \o " out of " \o NatToStr(total_files) \o " files processed",
     data |-> dict]

top_level_of(dict, count, total_files) ==
    [status |-> count = total_files,
     message |-> NatToStr(count) \o " out of " \o NatToStr(total_files) \o " files processed",
     data |-> dict]

-----------------------------------------------------------------------------
(* One call of extract_multiple_receipts_to_json on bounded lists of files. *)

MaxFiles == 3

BatchText1 ==
    Join(<<"VIVA TALENT SDN BHD", "43650 B.B.BANGI", "CASH SALE No. : CS123456",
           "1. PCC-50KG 50KG CEMENT BAG 20.00 BAG 22.00 440.00">>, "\n")

BatchText2 == Join(<<"CASH SALE", "ref CS123456", "Total Qty 77.00">>, "\n")

BatchText3 == "QUOTATION 2024"

\* a file of a batch: its path and tag, what is stored there, what the clock gives, and
\* the text of the exception that opening it raises when it cannot be read
BatchFiles ==
    { [path |-> "uploads/a.png", ext |-> "png", content |-> ImageOf(BatchText1),
       elapsed |-> 0, error |-> ""],
      [path |-> "uploads/b.pdf", ext |-> "pdf", content |-> ScannedPdfOf(BatchText2),
       elapsed |-> 75, error |-> ""],
      [path |-> "uploads/receipt_007.png", ext |-> "png", content |-> ImageOf(BatchText3),
       elapsed |-> 0, error |-> ""],
      [path |-> "uploads/CS123456.pdf", ext |-> "pdf", content |-> Corrupt,
       elapsed |-> 0, error |-> "No /Root object! - Is this really a PDF?"],
      [path |-> "in/receipt_007.jpg", ext |-> "jpg", content |-> Corrupt,
       elapsed |-> 0, error |-> "cannot identify image file 'in/receipt_007.jpg'"],
      [path |-> "uploads/receipt_007.pdf", ext |-> "pdf", content |-> ImageOf(BatchText3),
       elapsed |-> 0, error |-> "No /Root object! - Is this really a PDF?"],
      [path |-> "", ext |-> "png", content |-> Corrupt,
       elapsed |-> 0, error |-> "[Errno 2] No such file or directory: ''"] }

BatchInit ==
    /\ files \in SeqsUpTo(BatchFiles, MaxFiles)
    /\ idx = 1
    /\ results = <<>>
    /\ processed_count = 0
    /\ outcomes = <<>>
    /\ top_level = <<>>
    /\ bpc = "loop"
    /\ AreaIdle
    /\ OneIdle
    /\ StatsIdle
    /\ WebIdle

\* an iteration whose try block runs to its end
ProcessReturns ==
    /\ bpc = "loop"
    /\ idx <= Len(files)
    /\ \E r \in {extract_receipt_to_object(files[idx].path, files[idx].ext,
                                          files[idx].content, files[idx].content,
                                          files[idx].elapsed)} :
        /\ ~r.raised
        /\ results' = store(results, result_key(r.value), r.value)
        /\ outcomes' = Append(outcomes, [raised |-> FALSE, obj |-> r.value])
    /\ processed_count' = processed_count + 1
    /\ idx' = idx + 1
    /\ UNCHANGED <<files, top_level, bpc, areaVars, oneVars, statsVars, webVars>>

\* an iteration whose extraction raises: the except branch
ProcessRaises ==
    /\ bpc = "loop"
    /\ idx <= Len(files)
    /\ \E r \in {extract_receipt_to_object(files[idx].path, files[idx].ext,
                                          files[idx].content, files[idx].content,
                                          files[idx].elapsed)} :
        /\ r.raised
        /\ results' = store(results, placeholder_key(files[idx].path),
                            placeholder(files[idx].path, files[idx].error))
        /\ outcomes' = Append(outcomes,
                              [raised |-> TRUE,
                               obj |-> placeholder(files[idx].path, files[idx].error)])
    /\ idx' = idx + 1
    /\ UNCHANGED <<files, processed_count, top_level, bpc, areaVars, oneVars, statsVars, webVars>>

\* after the loop
BatchReturns ==
    /\ bpc = "loop"
    /\ idx > Len(files)
    /\ top_level' = top_level_of(results, processed_count, Len(files))
    /\ bpc' = "returned"
    /\ UNCHANGED <<files, idx, results, processed_count, outcomes, areaVars, oneVars,
                   statsVars, webVars>>

BatchNext == ProcessReturns \/ ProcessRaises \/ BatchReturns

SpecBatch == BatchInit /\ [][BatchNext]_vars

-----------------------------------------------------------------------------
(* Properties of one call of extract_multiple_receipts_to_json (under      *)
(* SpecBatch).                                                             *)

\* the documents whose extraction raised
Failing == {i \in 1..Len(outcomes) : outcomes[i].raised}

\* the keys of the placeholder entries of a mapping
Placeholders(data) == {key \in DOMAIN data : data[key].status = FALSE}

\* the key the i-th document resolves to: the invoice number for a success, the file
\* name's stem for a failure, "UNKNOWN" in place of an empty one
DocKey(i) ==
    LET k == IF outcomes[i].raised THEN StemOf(files[i].path)
             ELSE outcomes[i].obj.invoice_number
    IN IF k = "" THEN "UNKNOWN" ELSE k

\* no document after the i-th resolves to the i-th's key
IsLastOfItsKey(i) == \A j \in (i + 1)..Len(outcomes) : DocKey(j) # DocKey(i)

\* the call returns, having gone through every document; processed_count is n - k and
\* the top-level status is (processed_count == n)
BatchCountsHold ==
    /\ Len(outcomes) = Len(files)
    /\ processed_count = Len(files) - Cardinality(Failing)
    /\ top_level.status = (processed_count = Len(files))

\* C1 as stated: with k of the n documents raising, the call returns, every document is
\* processed, status is (processed_count == n) with processed_count = n - k, and the
\* mapping holds exactly k placeholders, each keyed by a failing file's stem
C1_ExactlyKPlaceholders ==
    /\ bpc \in {"loop", "returned"}
    /\ bpc = "returned" =>
        /\ BatchCountsHold
        /\ Cardinality(Placeholders(top_level.data)) = Cardinality(Failing)
        /\ \A key \in Placeholders(top_level.data) :
            \E i \in Failing : key = StemOf(files[i].path)

\* C1 amended: the call returns, every document is processed, status is
\* (processed_count == n) with processed_count = n - k; every placeholder is keyed by a
\* failing file's stem ("UNKNOWN" for an empty stem), a failing file's key holds its
\* placeholder unless a later document resolves to the same key, so there are at most k
\* placeholders, and exactly k when the documents' keys are all different
C1_PlaceholdersOfFailures ==
    /\ bpc \in {"loop", "returned"}
    /\ bpc = "returned" =>
        /\ BatchCountsHold
        /\ \A key \in Placeholders(top_level.data) : \E i \in Failing : key = DocKey(i)
        /\ \A i \in Failing :
            IsLastOfItsKey(i) =>
                /\ DocKey(i) \in Placeholders(top_level.data)
                /\ top_level.data[DocKey(i)].invoice_number = DocKey(i)
        /\ Cardinality(Placeholders(top_level.data)) <= Cardinality(Failing)
        /\ (\A i \in 1..Len(outcomes) : IsLastOfItsKey(i)) =>
                Cardinality(Placeholders(top_level.data)) = Cardinality(Failing)

\* a failing document between two that go through, and a second failing one
C1_Witness ==
    /\ bpc = "returned"
    /\ Len(files) = 3
    /\ outcomes[1].raised /\ ~outcomes[2].raised /\ outcomes[3].raised
    /\ processed_count = 1
    /\ top_level.status = FALSE
    /\ Cardinality(Placeholders(top_level.data)) = 2

\* C6: the mapping has one entry per key the documents resolve to, each the result of
\* the last document of that key, success or placeholder; processed_count counts every
\* document that went through, so the mapping can have fewer entries than there are files
C6_LaterDocumentWins ==
    bpc = "returned" =>
        /\ DOMAIN top_level.data = {DocKey(i) : i \in 1..Len(files)}
        /\ \A i \in 1..Len(files) :
            IsLastOfItsKey(i) => top_level.data[DocKey(i)] = outcomes[i].obj
        /\ processed_count = Cardinality({i \in 1..Len(files) : ~outcomes[i].raised})
        /\ Cardinality(DOMAIN top_level.data) <= Len(files)

\* two documents that go through with the same invoice number and different results
C6_Witness ==
    /\ bpc = "returned"
    /\ Len(files) = 2
    /\ ~outcomes[1].raised /\ ~outcomes[2].raised
    /\ DocKey(1) = DocKey(2)
    /\ outcomes[1].obj # outcomes[2].obj
    /\ processed_count = 2
    /\ DOMAIN top_level.data = {DocKey(2)}
    /\ top_level.data[DocKey(2)] = outcomes[2].obj

-----------------------------------------------------------------------------
(* The usage counters of app.py.  stats.json is absent, or holds text that  *)
(* is not JSON (an empty file among them), or JSON that is not an object,  *)
(* or an object: [kind |-> "absent" | "invalid" | "list" | "dict", ...].   *)

StatsAbsent == [kind |-> "absent"]

\* a file that json.load rejects: one opened for writing and not yet written, which
\* is empty, or one that holds text after the end of its object
StatsTruncated == [kind |-> "invalid"]

StatsList == [kind |-> "list"]

StatsDict(data) == [kind |-> "dict", data |-> data]

StatsKeys == {"total_files", "success", "failed"}

DefaultStats == [k \in StatsKeys |-> 0]

\* _load_stats: the defaults for an absent, unreadable or non-object file, else the
\* object with the three keys defaulted to 0
load_stats(file) ==
    IF file.kind # "dict" THEN DefaultStats
    ELSE [k \in DOMAIN file.data \cup StatsKeys |->
            IF k \in DOMAIN file.data THEN file.data[k] ELSE 0]

\* bump_stats that counts the file and forgets the outcome
incremented_total_only(stats, success) ==
    [stats EXCEPT !["total_files"] = @ + 1]

\* stats["total_files"] += 1, then success or failed += 1
incremented(stats, success) ==
    [stats EXCEPT !["total_files"] = @ + 1,
                  ![IF success THEN "success" ELSE "failed"] = @ + 1]

RECURSIVE ItemsSize(_, _)
\* the lengths of the lines   "key": value   of json.dump(stats, f, indent=2), summed
\* over the keys of keys; the values are the counters, natural numbers
ItemsSize(stats, keys) ==
    IF keys = {} THEN 0
    ELSE LET k == CHOOSE x \in keys : TRUE
         IN 2 + (Len(k) + 2) + 2 + Len(NatToStr(stats[k])) + ItemsSize(stats, keys \ {k})

\* the length of the text of json.dump(stats, f, indent=2): "{", a line per key with
\* "," between them, and "}" on its own line
json_size(stats) ==
    IF DOMAIN stats = {} THEN 2
    ELSE 2 + ItemsSize(stats, DOMAIN stats) + 2 * (Cardinality(DOMAIN stats) - 1) + 2

\* _save_stats once the file is closed, the file holding size characters just before:
\* the text is written from the start of the file and nothing is cut, so what a
\* longer text left behind stays after the object, and json.load rejects the file
save_stats(stats, size) ==
    IF json_size(stats) >= size THEN StatsDict(stats) ELSE StatsTruncated

\* the length of the file after that
saved_size(stats, size) == IF json_size(stats) >= size THEN json_size(stats) ELSE size

\* the length of a file of the pool
file_size(file) ==
    IF file.kind = "dict" THEN json_size(file.data)
    ELSE IF file.kind = "list" THEN 2
    ELSE 0

-----------------------------------------------------------------------------
(* Concurrent calls of bump_stats, each a load, an increment and a save on  *)
(* the one file; open(STATS_FILE, "w") empties the file before json.dump   *)
(* and the close write it.                                                 *)

MaxBumps == 2

StatsFiles ==
    { StatsAbsent, StatsTruncated, StatsList,
      StatsDict([k \in StatsKeys |-> IF k = "total_files" THEN 3 ELSE IF k = "success" THEN 2 ELSE 1]),
      StatsDict([k \in {"total_files", "since"} |-> IF k = "total_files" THEN 5 ELSE 2024]) }

StatsInit ==
    /\ stats_file \in StatsFiles
    /\ stats_size = file_size(stats_file)
    /\ stats_start = stats_file
    /\ \E n \in 1..MaxBumps :
        /\ bump_arg \in [1..n -> BOOLEAN]
        /\ bump_local = [w \in 1..n |-> <<>>]
        /\ bump_pc = [w \in 1..n |-> "load"]
    /\ AreaIdle
    /\ OneIdle
    /\ BatchIdle
    /\ WebIdle

\* stats = _load_stats()
BumpLoad ==
    \E w \in DOMAIN bump_pc :
        /\ bump_pc[w] = "load"
        /\ bump_local' = [bump_local EXCEPT ![w] = load_stats(stats_file)]
        /\ bump_pc' = [bump_pc EXCEPT ![w] = "increment"]
        /\ UNCHANGED <<stats_file, stats_size, stats_start, bump_arg,
                       areaVars, oneVars, batchVars, webVars>>

BumpIncrement ==
    \E w \in DOMAIN bump_pc :
        /\ bump_pc[w] = "increment"
        /\ bump_local' = [bump_local EXCEPT ![w] = incremented(bump_local[w], bump_arg[w])]
        /\ bump_pc' = [bump_pc EXCEPT ![w] = "open"]
        /\ UNCHANGED <<stats_file, stats_size, stats_start, bump_arg,
                       areaVars, oneVars, batchVars, webVars>>

\* _save_stats: open(STATS_FILE, "w")
SaveOpen ==
    \E w \in DOMAIN bump_pc :
        /\ bump_pc[w] = "open"
        /\ stats_file' = StatsTruncated
        /\ stats_size' = 0
        /\ bump_pc' = [bump_pc EXCEPT ![w] = "dump"]
        /\ UNCHANGED <<stats_start, bump_arg, bump_local, areaVars, oneVars, batchVars, webVars>>

\* _save_stats: json.dump and the close that writes it, from the start of the file
\* each call's own file object being at offset 0
SaveClose ==
    \E w \in DOMAIN bump_pc :
        /\ bump_pc[w] = "dump"
        /\ stats_file' = save_stats(bump_local[w], stats_size)
        /\ stats_size' = saved_size(bump_local[w], stats_size)
        /\ bump_pc' = [bump_pc EXCEPT ![w] = "done"]
        /\ UNCHANGED <<stats_start, bump_arg, bump_local, areaVars, oneVars, batchVars, webVars>>

StatsNext == BumpLoad \/ BumpIncrement \/ SaveOpen \/ SaveClose

SpecStats == StatsInit /\ [][StatsNext]_vars

-----------------------------------------------------------------------------
(* Properties of concurrent bump_stats calls (under SpecStats).            *)

\* C8: once N interleaved bump_stats calls are over, the stored total_files has grown
\* by exactly N, and success + failed by exactly N
C8_NoLostUpdate ==
    (\A w \in DOMAIN bump_pc : bump_pc[w] = "done") =>
        LET before == load_stats(stats_start)
            after == load_stats(stats_file)
            N == Cardinality(DOMAIN bump_pc)
        IN /\ after["total_files"] = before["total_files"] + N
           /\ after["success"] + after["failed"] = before["success"] + before["failed"] + N

-----------------------------------------------------------------------------
(* process_single_file                                                     *)

ALLOWED_EXTENSIONS == {"pdf", "png", "jpg", "jpeg"}

UPLOAD_FOLDER == "uploads"

\* [A-Za-z0-9_.-], the characters secure_filename keeps
FilenameChars == Letters \cup Digits \cup {"_", ".", "-"}

RECURSIVE KeepChars(_, _)
\* re.sub of every character outside C by ""
KeepChars(s, C) ==
    IF s = "" THEN ""
    ELSE IF Len(s) = 1 THEN (IF s \in C THEN s ELSE "")
    ELSE KeepChars(SubSeq(s, 1, Len(s) \div 2), C)
            \o KeepChars(SubSeq(s, Len(s) \div 2 + 1, Len(s)), C)

\* s.strip(chars)
StripChars(s, C) ==
    LET keep == {k \in 1..Len(s) : Ch(s, k) \notin C}
    IN IF keep = {} THEN "" ELSE SubSeq(s, Min(keep), Max(keep))

\* werkzeug's secure_filename on an ASCII name: "/" becomes a space, runs of whitespace
\* become "_", characters outside [A-Za-z0-9_.-] go, leading and trailing "." and "_" go
secure_filename(filename) ==
    StripChars(KeepChars(Join(Split(Replace(filename, "/", " ")), "_"), FilenameChars),
               {".", "_"})

\* filename.rsplit(".", 1)[1] of a name that holds a "."
rsplit_ext(filename) ==
    Slice(filename, Max({k \in 1..Len(filename) : Ch(filename, k) = "."}) + 1, Len(filename))

\* is_allowed_ext with every extension that is not empty let through
is_allowed_ext_any(ext) == ext # ""

\* ext in ALLOWED_EXTENSIONS
is_allowed_ext(ext) == ext \in ALLOWED_EXTENSIONS

\* the 400 results
rejected(message) ==
    [result |-> [status |-> FALSE, message |-> message, data |-> <<>>, status_code |-> 400],
     http_status |-> 400]

\* the 500 result of the except branch
fail_result(e) ==
    [result |-> [status |-> FALSE, message |-> "Error processing file: " \o e,
                 data |-> <<>>, status_code |-> 500],
     http_status |-> 500]

\* the checks on the sanitised name: the 400 result, or the path the file is saved at
\* and the extension the extractor is given
process_named(filename) ==
    IF ~Contains(filename, ".")
    THEN [ok |-> FALSE, response |-> rejected("Missing file extension")]
    ELSE IF ~is_allowed_ext(Lower(rsplit_ext(filename)))
    THEN [ok |-> FALSE, response |-> rejected("Invalid file type. Allowed: pdf, png, jpg, jpeg")]
    ELSE [ok |-> TRUE, save_path |-> UPLOAD_FOLDER \o "/" \o filename,
          ext |-> Lower(rsplit_ext(filename))]

\* process_single_file up to the save: the three checks on an upload
checks(upload) ==
    IF upload.filename = "" THEN [ok |-> FALSE, response |-> rejected("No file selected")]
    ELSE process_named(secure_filename(upload.filename))

\* the 200 result of the try block
ok_result(value) == [result |-> value, http_status |-> 200]

-----------------------------------------------------------------------------
(* Requests served by process_single_file.  The server runs each request  *)
(* in a thread of its own (app.run, Flask's default), so a request can     *)
(* arrive while others are being served; its steps are the checks, the     *)
(* save of the upload, the call of the extractor on the saved path, and    *)
(* the load, increment, open and close of bump_stats.  The extractor opens *)
(* the path of a pdf without enough text layer twice, and the path can be  *)
(* written between the two.  bump_pc[i] is the position of request i:      *)
(* "wait" before it arrives, "saved" once its file is stored, "ocr"        *)
(* between the extractor's two opens, the positions of bump_stats, "done". *)

MaxRequests == 2

\* an upload: the name the client gave, what the file holds, what the clock gives the
\* extractor, and the text of the exception that opening the file raises when it
\* cannot be read
Uploads ==
    { [filename |-> "", content |-> ImageOf(BatchText1), elapsed |-> 0, error |-> ""],
      [filename |-> "receipt", content |-> ImageOf(BatchText1), elapsed |-> 0, error |-> ""],
      [filename |-> ".jpg", content |-> ImageOf(BatchText3), elapsed |-> 0, error |-> ""],
      [filename |-> "../../etc/passwd", content |-> Corrupt, elapsed |-> 0, error |-> ""],
      [filename |-> "evil.exe", content |-> Corrupt, elapsed |-> 0, error |-> ""],
      [filename |-> "a.png/b.txt", content |-> ImageOf(BatchText3), elapsed |-> 0,
       error |-> ""],
      [filename |-> "scan 01.PDF", content |-> ScannedPdfOf(BatchText2), elapsed |-> 75,
       error |-> ""],
      [filename |-> "scan_01.PDF.", content |-> TextPdfOf(BatchText1, BatchText3),
       elapsed |-> 0, error |-> ""],
      [filename |-> "photo.png", content |-> NativePdfOf(BatchText3), elapsed |-> 0,
       error |-> "cannot identify image file 'uploads/photo.png'"],
      [filename |-> "photo.png.", content |-> ImageOf(BatchText1), elapsed |-> 0, error |-> ""] }

\* checks for every upload of the pool
checked == [u \in Uploads |-> checks(u)]

\* the uploads that pass the checks
Saved == {u \in Uploads : checked[u].ok}

\* extract_receipt_to_object(save_path, ext) called for the upload u when the path
\* holds the file of the upload v at the first open and that of w at the second, for
\* the uploads of the pool
extracted == [u \in Saved |-> [v \in Saved |-> [w \in Saved |->
    extract_receipt_to_object(checked[u].save_path, checked[u].ext, v.content, w.content,
                              u.elapsed)]]]

\* extract_text_from_pdf called for the upload u gets past line 35 when the path holds
\* the file of v: it is not over after its first open of the path
opens_twice == [u \in Saved |-> [v \in Saved |->
    /\ checked[u].ext = "pdf"
    /\ v.content.format = "pdf"
    /\ Len(Strip(Join(v.content.native, "\n"))) <= NativeThreshold]]

WebInit ==
    /\ requests \in SeqsUpTo(Uploads, MaxRequests)
    /\ ridx = 1
    /\ stored = <<>>
    /\ opened = <<>>
    /\ responses = <<>>
    /\ extractor_calls = <<>>
    /\ overlapped = FALSE
    /\ stats_file \in {StatsAbsent, StatsDict([k \in StatsKeys |-> 1])}
    /\ stats_size = file_size(stats_file)
    /\ stats_start = stats_file
    /\ bump_arg = [i \in 1..Len(requests) |-> FALSE]
    /\ bump_local = [i \in 1..Len(requests) |-> <<>>]
    /\ bump_pc = [i \in 1..Len(requests) |-> "wait"]
    /\ AreaIdle
    /\ OneIdle
    /\ BatchIdle

\* request i is being served
InService(i) == bump_pc[i] \notin {"wait", "done"}

\* the next request arrives and goes to position to
Arrives(to) ==
    /\ bump_pc' = [bump_pc EXCEPT ![ridx] = to]
    /\ ridx' = ridx + 1
    /\ overlapped' = (overlapped \/ \E j \in DOMAIN bump_pc : InService(j))
    /\ UNCHANGED <<requests, opened, extractor_calls, stats_file, stats_size, stats_start,
                   bump_arg, bump_local, areaVars, oneVars, batchVars>>

\* the next request fails a check and returns its 400 result
Returns400(message) ==
    /\ ridx <= Len(requests)
    /\ ~checked[requests[ridx]].ok
    /\ checked[requests[ridx]].response.result.message = message
    /\ responses' = (ridx :> checked[requests[ridx]].response) @@ responses
    /\ stored' = stored
    /\ Arrives("done")

RejectNoFile == Returns400("No file selected")

RejectNoExtension == Returns400("Missing file extension")

RejectInvalidType == Returns400("Invalid file type. Allowed: pdf, png, jpg, jpeg")

\* file_storage.save(save_path): the upload replaces what the path held
SaveUpload ==
    /\ ridx <= Len(requests)
    /\ checked[requests[ridx]].ok
    /\ stored' = (checked[requests[ridx]].save_path :> requests[ridx]) @@ stored
    /\ responses' = responses
    /\ Arrives("saved")

\* what the path of request i holds now
held(i) == stored[checked[requests[i]].save_path]

\* extract_receipt_to_object(save_path, ext) is called for request i
called(i) ==
    Append(extractor_calls, [request |-> i, path |-> checked[requests[i]].save_path,
                             ext |-> checked[requests[i]].ext])

\* the extractor of a request reads the text layer of a pdf, finds 100 characters or
\* fewer, and has still to open the path for the OCR
OpenNative ==
    \E i \in DOMAIN bump_pc :
        /\ bump_pc[i] = "saved"
        /\ opens_twice[requests[i]][held(i)]
        /\ opened' = (i :> held(i)) @@ opened
        /\ extractor_calls' = called(i)
        /\ bump_pc' = [bump_pc EXCEPT ![i] = "ocr"]
        /\ UNCHANGED <<requests, ridx, stored, responses, overlapped, stats_file, stats_size,
                       stats_start, bump_arg, bump_local, areaVars, oneVars, batchVars>>

\* the extractor's call for request i is over with one open of the path
OneOpen(i) == bump_pc[i] = "saved" /\ ~opens_twice[requests[i]][held(i)]

\* the outcome of the extractor's call for request i, which ends now
extraction(i) ==
    IF bump_pc[i] = "saved" THEN extracted[requests[i]][held(i)][held(i)]
    ELSE extracted[requests[i]][opened[i]][held(i)]

\* the try or the except block of request i up to its bump_stats call, with the
\* result it will return and the argument of bump_stats
Extracted(i, response, success) ==
    /\ responses' = (i :> response) @@ responses
    /\ extractor_calls' = (IF bump_pc[i] = "saved" THEN called(i) ELSE extractor_calls)
    /\ bump_arg' = [bump_arg EXCEPT ![i] = success]
    /\ bump_pc' = [bump_pc EXCEPT ![i] = "load"]
    /\ UNCHANGED <<requests, ridx, stored, opened, overlapped, stats_file, stats_size,
                   stats_start, bump_local, areaVars, oneVars, batchVars>>

\* the extractor returned: bump_stats(bool(result.get("status")))
ServeExtracted ==
    \E i \in DOMAIN bump_pc :
        /\ OneOpen(i) \/ bump_pc[i] = "ocr"
        /\ \E r \in {extraction(i)} :
            /\ ~r.raised
            /\ Extracted(i, ok_result(r.value), r.value.status)

\* the extractor raised on the file it was opening: fail_result, bump_stats(False)
ServeFailed ==
    \E i \in DOMAIN bump_pc :
        /\ OneOpen(i) \/ bump_pc[i] = "ocr"
        /\ \E r \in {extraction(i)} :
            /\ r.raised
            /\ Extracted(i, fail_result(held(i).error), FALSE)

WebNext ==
    \/ RejectNoFile
    \/ RejectNoExtension
    \/ RejectInvalidType
    \/ SaveUpload
    \/ OpenNative
    \/ ServeExtracted
    \/ ServeFailed
    \/ BumpLoad
    \/ BumpIncrement
    \/ SaveOpen
    \/ SaveClose

SpecWeb == WebInit /\ [][WebNext]_vars

-----------------------------------------------------------------------------
(* Properties of process_single_file (under SpecWeb).                      *)

\* the name n ends in a "." followed by e, letter case ignored, e holding no "."
HasExtension(n, e) ==
    \E k \in 1..Len(n) :
        /\ Ch(n, k) = "."
        /\ \A j \in (k + 1)..Len(n) : Ch(n, j) # "."
        /\ Lower(Slice(n, k + 1, Len(n))) = e

\* the upload's name is not empty and its sanitised form has an extension of the
\* allow-list
IsAcceptableName(name) ==
    /\ name # ""
    /\ \E e \in {"pdf", "png", "jpg", "jpeg"} : HasExtension(secure_filename(name), e)

\* the uploads of the pool with such a name
Acceptable == {u \in Uploads : IsAcceptableName(u.filename)}

\* C9: the extractor is only ever called with pdf, png, jpg or jpeg, so whatever is
\* not pdf there is png, jpg or jpeg; an upload with an empty name, no extension or an
\* extension outside the allow-list gets a status-false 400 result and no extractor call
C9_ExtractorSeesAllowedExtensionsOnly ==
    /\ \A c \in 1..Len(extractor_calls) :
        /\ extractor_calls[c].ext \in {"pdf", "png", "jpg", "jpeg"}
        /\ extractor_calls[c].ext # "pdf" => extractor_calls[c].ext \in {"png", "jpg", "jpeg"}
    /\ \A i \in 1..(ridx - 1) :
        requests[i] \notin Acceptable =>
            /\ i \in DOMAIN responses
            /\ responses[i].http_status = 400
            /\ responses[i].result.status = FALSE
            /\ responses[i].result.status_code = 400
            /\ bump_pc[i] = "done"
            /\ \A c \in 1..Len(extractor_calls) : extractor_calls[c].request # i

\* a disallowed extension behind an allowed one is rejected, then an upper-case PDF
\* reaches the extractor with the tag lower-cased
C9_Witness ==
    /\ DOMAIN responses = {1, 2}
    /\ requests[1].filename = "a.png/b.txt"
    /\ responses[1].http_status = 400
    /\ requests[2].filename = "scan 01.PDF"
    /\ responses[2].http_status = 200
    /\ extractor_calls = <<[request |-> 2, path |-> "uploads/scan_01.PDF", ext |-> "pdf"]>>

\* the counter k as the file file gives it: 0 when there is no file
CounterOf(file, k) == IF file.kind = "dict" THEN file.data[k] ELSE 0

\* the requests that are over and got the status code
Finished(code) ==
    {i \in DOMAIN responses : bump_pc[i] = "done" /\ responses[i].http_status = code}

\* the requests have been served one after the other so far, from no stats file
ServedInTurn == stats_start = StatsAbsent /\ ~overlapped

\* no request is being served
Quiet == \A i \in DOMAIN bump_pc : ~InService(i)

\* C14: with requests served one after the other from an absent stats file,
\* total_files = success + failed after every call of process_single_file; each call
\* that reached the extractor has added 1 to total_files and 1 to success when the
\* extractor returned (its status is true) or 1 to failed when it raised, and the calls
\* rejected for an empty name, a missing extension or a disallowed extension have left
\* the three counters as they were: between calls the counters are the numbers of
\* calls that returned 200 and 500.
C14_CountersBalanced ==
    (ServedInTurn /\ Quiet) =>
        /\ CounterOf(stats_file, "total_files")
                = CounterOf(stats_file, "success") + CounterOf(stats_file, "failed")
        /\ CounterOf(stats_file, "success") = Cardinality(Finished(200))
        /\ CounterOf(stats_file, "failed") = Cardinality(Finished(500))
        /\ \A i \in Finished(200) : responses[i].result.status = TRUE
        /\ \A i \in Finished(400) : requests[i] \notin Acceptable
        /\ \A i \in Finished(200) \cup Finished(500) : requests[i] \in Acceptable

\* from no stats file, one upload extracted, then one that could not be read
C14_Witness ==
    /\ ServedInTurn
    /\ Quiet
    /\ DOMAIN responses = {1, 2}
    /\ responses[1].http_status = 200
    /\ responses[2].http_status = 500
    /\ stats_file = StatsDict([k \in StatsKeys |-> IF k = "total_files" THEN 2 ELSE 1])

====
